---------------------------- MODULE Spec2Model ----------------------------
(***************************************************************************)
(* A model of the failure-detection core of the memberlist package:        *)
(*   - the suspicion timer (newSuspicion, remainingSuspicionTime, Confirm) *)
(*   - compound message framing (makeCompoundMessage,                      *)
(*     decodeCompoundMessage)                                              *)
(*   - the node-list helpers moveDeadNodes and kRandomNodes.               *)
(* Durations and instants are whole milliseconds.                          *)
(***************************************************************************)
EXTENDS Integers, Sequences, FiniteSets, TLC

VARIABLES
    \* ---- suspicion timer (struct suspicion) ----
    k,              \* s.k: confirmations wanted
    min,            \* s.min
    max,            \* s.max
    n,              \* s.n: atomic confirmation counter
    confirmations,  \* s.confirmations: the map's key set
    mapWriting,     \* Confirm calls that are inside the map assignment
    mapRaced,       \* those of them that were inside it together with another
    start,          \* s.start
    armedAt,        \* the instant time.AfterFunc armed the timer
    now,            \* the wall clock
    timer,          \* s.timer: [active, deadline]
    pending,        \* goroutines started to run s.timeoutFn, not yet run,
                    \* each with who started it: "timer" or "confirm"
    fnCalls,        \* the calls of fn so far: [arg, by], in order
    th,             \* the goroutines calling Confirm: position and locals
    calls,          \* number of Confirm calls made so far
    named,          \* the highest peer that has been a call's "from" so far
    crashed,        \* the runtime has thrown a fatal error
    \* ---- compound messages ----
    cm,             \* a sender packing msgs and a receiver decoding the wire
    \* ---- node-list helpers ----
    dn,             \* a call of moveDeadNodes: its input and its result
    kr,             \* a call of kRandomNodes: its arguments and its loop
    \* ---- scaling heuristics and the compression envelope ----
    sc,             \* calls of pushPullScale or retransmitLimit for two sizes
    dc              \* a call of decompressBuffer: the envelope and the result

suspVars == <<k, min, max, n, confirmations, mapWriting, mapRaced, start,
              armedAt, now, timer, pending, fnCalls, th, calls, named, crashed>>

utilVars == <<cm, dn, kr, sc, dc>>

vars == <<suspVars, utilVars>>

(***************************************************************************)
(* Bounds of the model.                                                    *)
(***************************************************************************)
MaxCalls == 2       \* Confirm calls made in one run
NumPeers == 2       \* peers other than the originating one
MaxK == 2           \* largest confirmation target
MaxTime == 4        \* the clock runs past this only up to an armed deadline

\* Two message-receipt paths call Confirm, each one call after the other.
Threads == {1, 2}
FromPeer == 0                       \* the "from" passed to newSuspicion
Peers == 0..NumPeers
KSet == (0 - 1)..MaxK
\* <<min, max>> pairs the timer is built with
Timeouts == {<<2, 2>>, <<1, 4>>}
\* preemption between arming the timer and reading s.start: none, or 1 ms
Gaps == {0, 1}

RECURSIVE Pow(_, _)
Pow(b, e) == IF e = 0 THEN 1 ELSE b * Pow(b, e - 1)

(***************************************************************************)
(* float64 arithmetic                                                      *)
(*                                                                         *)
(* Lines 87-89 compute in float64. A natural number is a sequence of       *)
(* digits in base 2^15, least significant first, with no leading zero      *)
(* digit; a float64 is [sg, m, e] standing for sg * m * 2^e with a         *)
(* mantissa m of exactly 53 bits, or m = <<>> for zero. Every operation    *)
(* computes the exact result and rounds it to nearest, ties to even, as    *)
(* IEEE 754 prescribes. Infinities, NaN and subnormal numbers do not arise *)
(* for the inputs of the timer (n >= 0, k >= 1, durations >= 0).           *)
(***************************************************************************)
Base == 32768
DigitBits == 15
MantBits == 53

\* 2^j for j in 0..DigitBits
Pow2(j) ==
    <<1, 2, 4, 8, 16, 32, 64, 128, 256, 512, 1024, 2048, 4096, 8192, 16384, 32768>>[j + 1]

Digit(a, i) == IF 1 <= i /\ i <= Len(a) THEN a[i] ELSE 0

Zeros(j) == [i \in 1..j |-> 0]

\* a without its leading zero digits
BNorm(a) ==
    LET nz == {i \in 1..Len(a) : a[i] # 0}
    IN  IF nz = {} THEN <<>>
        ELSE SubSeq(a, 1, CHOOSE i \in nz : \A i2 \in nz : i2 <= i)

\* for 0 <= x < 2^31
BFromNat(x) == BNorm(<<x % Base, (x \div Base) % Base, x \div (Base * Base)>>)

\* for a < 2^31
BToNat(a) == Digit(a, 1) + Base * Digit(a, 2) + Base * Base * Digit(a, 3)

\* a + b: a carry enters digit i when some digit below it overflows and all
\* digits between the two are Base - 1.
BAdd(a, b) ==
    LET adN == IF Len(a) < Len(b) THEN Len(b) ELSE Len(a)
        adS == [i \in 1..(adN + 1) |-> Digit(a, i) + Digit(b, i)] \o <<>>
        adC == [i \in 1..(adN + 1) |->
                   IF \E p \in 1..(i - 1) :
                          adS[p] >= Base /\ \A q \in (p + 1)..(i - 1) : adS[q] = Base - 1
                   THEN 1 ELSE 0]
    IN  BNorm([i \in 1..(adN + 1) |-> (adS[i] + adC[i]) % Base])

\* a - b for a >= b: digit i lends one when some digit below it is short and
\* all digits between the two are equal.
BSub(a, b) ==
    LET sbC == [i \in 1..Len(a) |->
                   IF \E p \in 1..(i - 1) :
                          a[p] < Digit(b, p) /\ \A q \in (p + 1)..(i - 1) : a[q] = Digit(b, q)
                   THEN 1 ELSE 0]
    IN  BNorm([i \in 1..Len(a) |-> (Base + a[i] - Digit(b, i) - sbC[i]) % Base])

\* -1, 0 or 1 as a is less than, equal to or greater than b
BCmp(a, b) ==
    LET cmD == {i \in 1..Len(a) : a[i] # Digit(b, i)}
        cmI == CHOOSE i \in cmD : \A i2 \in cmD : i2 <= i
    IN  IF Len(a) < Len(b) THEN 0 - 1
        ELSE IF Len(a) > Len(b) THEN 1
        ELSE IF cmD = {} THEN 0
        ELSE IF a[cmI] < b[cmI] THEN 0 - 1 ELSE 1

\* a * x for 0 <= x <= Base: the low halves of the digit products, plus their
\* high halves one place up
BMulDigit(a, x) ==
    BAdd([i \in 1..Len(a) |-> (a[i] * x) % Base],
         <<0>> \o [i \in 1..Len(a) |-> (a[i] * x) \div Base])

\* The sum over i of the low (h = 0) or high (h = 1) halves of a[i] * b[c - i],
\* the digit products of place c.
RECURSIVE ColumnSum(_, _, _, _, _)
ColumnSum(a, b, c, i, h) ==
    IF i > Len(a) THEN 0
    ELSE (IF h = 0 THEN ((a[i] * Digit(b, c - i)) % Base)
                   ELSE ((a[i] * Digit(b, c - i)) \div Base))
         + ColumnSum(a, b, c, i + 1, h)

\* a * b: the sums of the places, each split again into a digit and what
\* goes one place up
BMul(a, b) ==
    LET mlN == Len(a) + Len(b)
        mlT == [c \in 1..mlN |-> ColumnSum(a, b, c + 1, 1, 0) + ColumnSum(a, b, c, 1, 1)]
               \o <<>>
    IN  BAdd([c \in 1..mlN |-> mlT[c] % Base],
             <<0>> \o [c \in 1..mlN |-> mlT[c] \div Base])

\* a * 2^j
BShl(a, j) ==
    LET shS == j % DigitBits
    IN  IF a = <<>> THEN <<>>
        ELSE Zeros(j \div DigitBits)
             \o BNorm([i \in 1..(Len(a) + 1) |->
                          ((Digit(a, i) * Pow2(shS)) % Base)
                          + (Digit(a, i - 1) \div Pow2(DigitBits - shS))])

\* floor(a / 2^j)
BShr(a, j) ==
    LET srW == j \div DigitBits
        srS == j % DigitBits
    IN  BNorm([i \in 1..(Len(a) - srW) |->
                  (Digit(a, i + srW) \div Pow2(srS))
                  + ((Digit(a, i + srW + 1) % Pow2(srS)) * Pow2(DigitBits - srS))])

\* the number of binary digits of one digit
BitLenDigit(x) == CHOOSE j \in 0..DigitBits : x < Pow2(j) /\ (j = 0 \/ x >= Pow2(j - 1))

BitLen(a) == IF a = <<>> THEN 0 ELSE DigitBits * (Len(a) - 1) + BitLenDigit(a[Len(a)])

BIsOdd(a) == a # <<>> /\ a[1] % 2 = 1

\* Long division by b, whose leading digit is at least Base / 2, one digit of
\* a at a time from digit j down: d = [q, r] with r < b holds the quotient and
\* the remainder of the digits above j. The next digit of the quotient is at
\* most the quotient of the two leading digits of the remainder by the leading
\* digit of b, and at least two less.
RECURSIVE BDivModFrom(_, _, _, _)
BDivModFrom(a, b, j, d) ==
    IF j = 0 THEN d
    ELSE LET dvR == BNorm(<<a[j]>> \o d.r)
             dvTop == Digit(dvR, Len(b) + 1) * Base + Digit(dvR, Len(b))
             dvEst == dvTop \div b[Len(b)]
             dvHat == IF dvEst > Base - 1 THEN Base - 1 ELSE dvEst
             dvT == CHOOSE t \in {dvHat - 2, dvHat - 1, dvHat} :
                        /\ t >= 0
                        /\ BCmp(BMulDigit(b, t), dvR) <= 0
                        /\ BCmp(BMulDigit(b, t + 1), dvR) > 0
         IN  IF dvT = 0
             THEN BDivModFrom(a, b, j - 1, [q |-> BNorm(<<0>> \o d.q), r |-> dvR])
             ELSE BDivModFrom(a, b, j - 1,
                      [q |-> <<dvT>> \o d.q, r |-> BSub(dvR, BMulDigit(b, dvT))])

\* [q, r] with a = q * b + r and r < b, for b # 0 and a >= b: both are first
\* multiplied by the power of two that brings the leading digit of b to
\* Base / 2 or more, which leaves the quotient as it is and multiplies the
\* remainder. The leading digits of a, one fewer than b has, are below b and
\* start as the remainder.
BDivMod(a, b) ==
    LET dvSh == DigitBits - BitLenDigit(b[Len(b)])
        dvA == BShl(a, dvSh)
        dvB == BShl(b, dvSh)
        dvLow == Len(dvA) - (Len(dvB) - 1)
        dvD == BDivModFrom(dvA, dvB, dvLow,
                           [q |-> <<>>, r |-> SubSeq(dvA, dvLow + 1, Len(dvA))])
    IN  [q |-> dvD.q, r |-> BShr(dvD.r, dvSh)]

FZero == [sg |-> 1, m |-> <<>>, e |-> 0]

FNeg(x) == [x EXCEPT !.sg = 0 - x.sg]

\* An exact result before rounding: u.sg * u.m * 2^u.e, with a mantissa of
\* any length, and a little more when u.sticky.
Exact(sg, M, E, sticky) == [sg |-> sg, m |-> M, e |-> E, sticky |-> sticky]

\* x + y
ExactSum(x, y) ==
    LET faE == IF x.e < y.e THEN x.e ELSE y.e
        faX == BShl(x.m, x.e - faE)
        faY == BShl(y.m, y.e - faE)
        faC == BCmp(faX, faY)
    IN  IF x.m = <<>> THEN Exact(y.sg, y.m, y.e, FALSE)
        ELSE IF y.m = <<>> THEN Exact(x.sg, x.m, x.e, FALSE)
        ELSE IF x.sg = y.sg THEN Exact(x.sg, BAdd(faX, faY), faE, FALSE)
        ELSE IF faC = 0 THEN Exact(1, <<>>, 0, FALSE)
        ELSE IF faC > 0 THEN Exact(x.sg, BSub(faX, faY), faE, FALSE)
        ELSE Exact(y.sg, BSub(faY, faX), faE, FALSE)

\* x * y
ExactProduct(x, y) ==
    IF x.m = <<>> \/ y.m = <<>> THEN Exact(1, <<>>, 0, FALSE)
    ELSE Exact(x.sg * y.sg, BMul(x.m, y.m), x.e + y.e, FALSE)

\* x / y for y # 0: the quotient of the mantissas to 56 or 57 bits, sticky
\* when the division leaves a remainder
ExactQuotient(x, y) ==
    LET fdD == BDivMod(BShl(x.m, MantBits + 3), y.m)
    IN  IF x.m = <<>> THEN Exact(1, <<>>, 0, FALSE)
        ELSE Exact(x.sg * y.sg, fdD.q, x.e - (MantBits + 3) - y.e, fdD.r # <<>>)

\* the integer i, below 2^31 in size
ExactInt(i) == Exact(IF i < 0 THEN 0 - 1 ELSE 1, BFromNat(IF i < 0 THEN 0 - i ELSE i), 0, FALSE)

\* u rounded to nearest, ties to even: the leading 53 bits of the mantissa,
\* plus one when the bits cut off are more than half a unit, or half a unit
\* with the last bit kept odd
FRound(u) ==
    LET rdL == BitLen(u.m)
        rdSh == rdL - MantBits
        rdQ == BShr(u.m, rdSh)
        rdHalf == BCmp(BSub(u.m, BShl(rdQ, rdSh)), BShl(<<1>>, rdSh - 1))
        rdUp == rdHalf > 0 \/ (rdHalf = 0 /\ (u.sticky \/ BIsOdd(rdQ)))
        rdQ1 == IF rdUp THEN BAdd(rdQ, <<1>>) ELSE rdQ
    IN  IF rdL = 0 THEN FZero
        ELSE IF rdL <= MantBits
        THEN [sg |-> u.sg, m |-> BShl(u.m, MantBits - rdL), e |-> u.e - (MantBits - rdL)]
        ELSE IF BitLen(rdQ1) > MantBits
        THEN [sg |-> u.sg, m |-> BShr(rdQ1, 1), e |-> u.e + rdSh + 1]
        ELSE [sg |-> u.sg, m |-> rdQ1, e |-> u.e + rdSh]

\* The float64 operations of the timer: the conversion float64(x) of an
\* integer, and x + y, x - y, x * y and x / y, each the exact result rounded.
F64Op(op, x, y) ==
    FRound(CASE op = "float64" -> ExactInt(x)
             [] op = "+" -> ExactSum(x, y)
             [] op = "-" -> ExactSum(x, FNeg(y))
             [] op = "*" -> ExactProduct(x, y)
             [] op = "/" -> ExactQuotient(x, y))

\* math.Floor(x) as an integer, for x below 2^31 in size
FFloor(x) ==
    LET flQ == BShr(x.m, 0 - x.e)
    IN  IF x.m = <<>> THEN 0
        ELSE IF x.e >= 0 THEN x.sg * BToNat(BShl(x.m, x.e))
        ELSE IF x.sg > 0 THEN BToNat(flQ)
        ELSE IF BShl(flQ, 0 - x.e) = x.m THEN 0 - BToNat(flQ)
        ELSE 0 - (BToNat(flQ) + 1)

F64(digits, ex) == [sg |-> 1, m |-> digits, e |-> ex]

\* 6.93147180369123816490e-01
Ln2Hi == F64(<<0, 32192, 14603, 177>>, 0 - 53)
\* 1.90821492927058770002e-10
Ln2Lo == F64(<<15478, 27378, 26556, 209>>, 0 - 85)
\* 6.666666666666735130e-01
L1 == F64(<<21907, 10922, 21845, 170>>, 0 - 53)
\* 3.999999999940941908e-01
L2 == F64(<<31236, 13103, 26214, 204>>, 0 - 54)
\* 2.857142874366239149e-01
L3 == F64(<<4953, 10309, 9362, 146>>, 0 - 54)
\* 2.222219843214978396e-01
L4 == F64(<<30895, 15132, 18196, 227>>, 0 - 55)
\* 1.818357216161805012e-01
L5 == F64(<<990, 11670, 6546, 186>>, 0 - 55)
\* 1.531383769920937332e-01
L6 == F64(<<18079, 8433, 26663, 156>>, 0 - 55)
\* 1.479819860511658591e-01
L7 == F64(<<21060, 15996, 17483, 151>>, 0 - 55)
\* math.Sqrt2 / 2 = 0.7071067811865476
HalfSqrt2 == F64(<<15309, 19710, 633, 181>>, 0 - 53)

\* The literals of the float64 code, by name
Literals ==
    [c \in {"1", "2", "0.5", "1000", "1e9", "Ln2Hi", "Ln2Lo",
            "L1", "L2", "L3", "L4", "L5", "L6", "L7"} |->
        CASE c = "1" -> F64(<<0, 0, 0, 128>>, 0 - 52)
          [] c = "2" -> F64(<<0, 0, 0, 128>>, 0 - 51)
          [] c = "0.5" -> F64(<<0, 0, 0, 128>>, 0 - 53)
          [] c = "1000" -> F64(<<0, 0, 0, 250>>, 0 - 43)
          [] c = "1e9" -> F64(<<0, 0, 13716, 238>>, 0 - 23)
          [] c = "Ln2Hi" -> Ln2Hi [] c = "Ln2Lo" -> Ln2Lo
          [] c = "L1" -> L1 [] c = "L2" -> L2 [] c = "L3" -> L3 [] c = "L4" -> L4
          [] c = "L5" -> L5 [] c = "L6" -> L6 [] c = "L7" -> L7] @@ <<>>

\* math.Log from f := f1 - 1 on, one operation a statement: <<v, op, a, b>>
\* assigns a op b to v.
LogStatements ==
    << <<"f", "-", "f1", "1">>,
       <<"k", "float64", "ki", "ki">>,
       \* s := f / (2 + f)
       <<"s", "+", "2", "f">>,
       <<"s", "/", "f", "s">>,
       <<"s2", "*", "s", "s">>,
       <<"s4", "*", "s2", "s2">>,
       \* t1 := s2 * (L1 + s4*(L3+s4*(L5+s4*L7)))
       <<"t1", "*", "s4", "L7">>,
       <<"t1", "+", "L5", "t1">>,
       <<"t1", "*", "s4", "t1">>,
       <<"t1", "+", "L3", "t1">>,
       <<"t1", "*", "s4", "t1">>,
       <<"t1", "+", "L1", "t1">>,
       <<"t1", "*", "s2", "t1">>,
       \* t2 := s4 * (L2 + s4*(L4+s4*L6))
       <<"t2", "*", "s4", "L6">>,
       <<"t2", "+", "L4", "t2">>,
       <<"t2", "*", "s4", "t2">>,
       <<"t2", "+", "L2", "t2">>,
       <<"t2", "*", "s4", "t2">>,
       <<"R", "+", "t1", "t2">>,
       \* hfsq := 0.5 * f * f
       <<"hfsq", "*", "0.5", "f">>,
       <<"hfsq", "*", "hfsq", "f">>,
       \* return k*Ln2Hi - ((hfsq - (s*(hfsq+R) + k*Ln2Lo)) - f)
       <<"hi", "*", "k", "Ln2Hi">>,
       <<"lo", "+", "hfsq", "R">>,
       <<"lo", "*", "s", "lo">>,
       <<"kLo", "*", "k", "Ln2Lo">>,
       <<"lo", "+", "lo", "kLo">>,
       <<"lo", "-", "hfsq", "lo">>,
       <<"lo", "-", "lo", "f">>,
       <<"return", "-", "hi", "lo">> >>

\* math.Log up to the reduction of the argument: Frexp gives f1 in [1/2, 1)
\* and ki with x = f1 * 2^ki, for finite x > 0; f1 below Sqrt2 / 2 is doubled
\* and ki lowered by one.
LogReduce(x) ==
    IF BCmp(x.m, HalfSqrt2.m) < 0
    THEN [f1 |-> [x EXCEPT !.e = 1 - MantBits], ki |-> x.e + MantBits - 1]
    ELSE [f1 |-> [x EXCEPT !.e = 0 - MantBits], ki |-> x.e + MantBits]

RECURSIVE Run(_, _, _, _)

\* the statement st in the variables vs
Exec(st, vs) ==
    (st[1] :> (IF st[2] = "Log"
               THEN Run(LogStatements, 1, Len(LogStatements),
                        LogReduce(vs[st[3]]) @@ Literals)["return"]
               ELSE F64Op(st[2], vs[st[3]], vs[st[4]]))) @@ vs

\* the statements from lo to hi of a list, in the variables vs, up to a return
Run(sts, lo, hi, vs) ==
    LET rnMid == (lo + hi) \div 2
        rnVs == Run(sts, lo, rnMid, vs)
    IN  IF lo = hi THEN Exec(sts[lo], vs)
        ELSE IF "return" \in DOMAIN rnVs THEN rnVs
        ELSE Run(sts, rnMid + 1, hi, rnVs)

\* math.Log(x)
Log(x) == Run(<<<<"return", "Log", "x", "x">>>>, 1, 1, [x |-> x])["return"]

\* v := time.Duration.Seconds of sec whole seconds and nsec nanoseconds
Seconds(v, sec, nsec) ==
    << <<v, "float64", nsec, nsec>>,
       <<v, "/", v, "1e9">>,
       <<"sec", "float64", sec, sec>>,
       <<v, "+", "sec", v>> >>

\* line 87, and the two calls of Seconds of line 88
FracStatements ==
    << <<"logn", "float64", "n", "n">>,
       <<"logn", "+", "logn", "1">>,
       <<"logn", "Log", "logn", "logn">>,
       <<"logk", "float64", "k", "k">>,
       <<"logk", "+", "logk", "1">>,
       <<"logk", "Log", "logk", "logk">>,
       <<"frac", "/", "logn", "logk">> >>
    \o Seconds("max", "maxSec", "maxNsec") \o Seconds("min", "minSec", "minNsec")

\* the whole seconds and the nanoseconds of the rest of a duration of ms
\* milliseconds, the division truncating
DurationSec(ms) == IF ms < 0 THEN 0 - ((0 - ms) \div 1000) ELSE ms \div 1000

DurationNsec(ms) == (ms - 1000 * DurationSec(ms)) * 1000000

\* the variables of lines 87-89 on entry, durations in milliseconds
TimeoutVars(nn, kk, mn, mx) ==
    [n |-> nn, k |-> kk,
     maxSec |-> DurationSec(mx), maxNsec |-> DurationNsec(mx),
     minSec |-> DurationSec(mn), minNsec |-> DurationNsec(mn)] @@ Literals

(***************************************************************************)
(* remainingSuspicionTime                                                  *)
(***************************************************************************)
\* An interpolation that runs from min at no confirmations up to max at k.
RawTimeoutRising(nn, kk, mn, mx) ==
    LET rrSts == FracStatements \o << <<"raw", "-", "max", "min">>,
                                      <<"raw", "*", "frac", "raw">>,
                                      <<"raw", "+", "min", "raw">>,
                                      <<"timeout", "*", "1000", "raw">> >>
    IN  FFloor(Run(rrSts, 1, Len(rrSts), TimeoutVars(nn, kk, mn, mx))["timeout"])

\* lines 87-89, statement by statement in float64, for nn >= 0 and kk >= 1
\* (Confirm computes it only after n < k held at line 105): the timeout in
\* milliseconds before line 90 raises it to min. For nn > kk it is below min
\* and can be negative. Where max - frac * (max - min) is a whole number of
\* milliseconds the float64 result can lie just below it, and the floor of
\* line 89 is then one millisecond less.
RawTimeout(nn, kk, mn, mx) ==
    LET rtSts == FracStatements \o << <<"raw", "-", "max", "min">>,
                                      <<"raw", "*", "frac", "raw">>,
                                      <<"raw", "-", "max", "raw">>,
                                      <<"timeout", "*", "1000", "raw">> >>
    IN  FFloor(Run(rtSts, 1, Len(rtSts), TimeoutVars(nn, kk, mn, mx))["timeout"])

\* lines 87-89 for every count, target and pair of bounds a timer of this
\* model can have, computed once
rawTimeouts ==
    [a \in (0..MaxCalls) \X (1..MaxK) \X Timeouts |->
        RawTimeout(a[1], a[2], a[3][1], a[3][2])] @@ <<>>

remainingSuspicionTime(nn, kk, elapsed, mn, mx) ==
    LET raw == IF <<nn, kk, <<mn, mx>>>> \in DOMAIN rawTimeouts
               THEN rawTimeouts[<<nn, kk, <<mn, mx>>>>]
               ELSE RawTimeout(nn, kk, mn, mx)
        timeout == IF raw < mn THEN mn ELSE raw
    IN  timeout - elapsed

\* The parts of the state a specification does not use stay at these values.
NoCompound == [pc |-> "unused"]
NoDeadNodes == [pc |-> "unused"]
NoRandomNodes == [pc |-> "unused"]
NoScaling == [pc |-> "unused"]
NoDecompress == [pc |-> "unused"]

(***************************************************************************)
(* newSuspicion: the state right after construction.                       *)
(***************************************************************************)
\* A constructor that arms the timer for max whatever k is.
InitialTimeoutAlwaysMax(kk, mn, mx) == mx

\* lines 69-72
InitialTimeout(kk, mn, mx) == IF kk < 1 THEN mn ELSE mx

IdleThread == [pc |-> "idle", from |-> 0, nloc |-> 0, remaining |-> 0,
               ret |-> FALSE]

newSuspicion ==
    /\ k \in KSet
    /\ \E tm \in Timeouts : min = tm[1] /\ max = tm[2]
    /\ n = 0
    /\ confirmations = {FromPeer}
    /\ mapWriting = {}
    /\ mapRaced = {}
    /\ armedAt = 0
    /\ timer = [active |-> TRUE,
                deadline |-> armedAt + InitialTimeout(k, min, max)]
    /\ \E g \in Gaps : start = armedAt + g
    /\ now = start
    /\ pending = <<>>
    /\ fnCalls = <<>>
    /\ th = [t \in Threads |-> IdleThread]
    /\ calls = 0
    /\ named = FromPeer
    /\ crashed = FALSE
    /\ cm = NoCompound /\ dn = NoDeadNodes /\ kr = NoRandomNodes
    /\ sc = NoScaling /\ dc = NoDecompress

(***************************************************************************)
(* The clock, the timer and the goroutines running s.timeoutFn.            *)
(***************************************************************************)
\* The clock is followed while something can still observe it: an armed timer,
\* or a call that has stopped the timer and is about to re-arm it.
Tick ==
    /\ ~crashed
    /\ \/ /\ now < MaxTime
          /\ timer.active \/ \E t \in Threads : th[t].pc = "stopped"
       \/ timer.active /\ now < timer.deadline
    /\ now' = now + 1
    /\ UNCHANGED utilVars
    /\ UNCHANGED <<k, min, max, n, confirmations, mapWriting, mapRaced,
                   start, armedAt, timer, pending, fnCalls, th, calls, crashed, named>>

\* The runtime fires an armed timer at or after its deadline and starts
\* s.timeoutFn in a goroutine of its own.
TimerExpire ==
    /\ ~crashed
    /\ timer.active
    /\ now >= timer.deadline
    /\ timer' = [timer EXCEPT !.active = FALSE]
    /\ pending' = Append(pending, "timer")
    /\ UNCHANGED utilVars
    /\ UNCHANGED <<k, min, max, n, confirmations, mapWriting, mapRaced,
                   start, armedAt, now, fnCalls, th, calls, crashed, named>>

\* s.timeoutFn: fn(int(atomic.LoadInt32(&s.n)))
timeoutFn ==
    /\ ~crashed
    /\ pending # <<>>
    /\ pending' = Tail(pending)
    /\ fnCalls' = Append(fnCalls, [arg |-> n, by |-> Head(pending)])
    /\ UNCHANGED utilVars
    /\ UNCHANGED <<k, min, max, n, confirmations, mapWriting, mapRaced,
                   start, armedAt, now, timer, th, crashed, calls, named>>

(***************************************************************************)
(* Confirm, one shared-memory access per step.                             *)
(***************************************************************************)
\* The call returns r; its locals die with it.
Return(t, r) == [th EXCEPT ![t].pc = "done", ![t].ret = r, ![t].nloc = 0,
                           ![t].remaining = 0]

\* Confirm(from) is called; line 105: atomic.LoadInt32(&s.n) >= s.k
ConfirmLoad(t, p) ==
    /\ ~crashed
    /\ th[t].pc \in {"idle", "done"}
    /\ calls < MaxCalls
    \* the goroutines are numbered in the order of their first calls
    /\ \A u \in Threads : u < t => th[u].pc # "idle"
    \* peers other than the originating one are alike: they are numbered in the
    \* order in which calls first name them
    /\ p <= named + 1
    /\ named' = IF p > named THEN p ELSE named
    /\ calls' = calls + 1
    /\ th' = IF n >= k
             THEN [th EXCEPT ![t].pc = "done", ![t].from = p, ![t].ret = FALSE]
             ELSE [th EXCEPT ![t].pc = "lookup", ![t].from = p]
    /\ UNCHANGED utilVars
    /\ UNCHANGED <<k, min, max, n, confirmations, mapWriting, mapRaced,
                   start, armedAt, now, timer, pending, fnCalls, crashed>>

\* A lookup that never finds the key.
LookupAlwaysAbsent(p) == {FALSE}

\* What an unsynchronised read of the map can answer for key p: the key set as
\* it is, or as it will be once assignments in flight have landed.
LookupAnswers(p) ==
    {p \in confirmations}
      \cup {(p \in (confirmations \cup {th[w].from})) : w \in mapWriting}

\* line 110: _, ok := s.confirmations[from]
ConfirmLookup(t) ==
    /\ ~crashed
    /\ th[t].pc = "lookup"
    /\ \/ /\ \E ok \in LookupAnswers(th[t].from) :
                th' = IF ok THEN Return(t, FALSE)
                      ELSE [th EXCEPT ![t].pc = "insert"]
          /\ UNCHANGED crashed
       \/ \* fatal error: concurrent map read and map write
          /\ mapWriting # {}
          /\ crashed' = TRUE
          /\ UNCHANGED th
    /\ UNCHANGED utilVars
    /\ UNCHANGED <<k, min, max, n, confirmations, mapWriting, mapRaced,
                   start, armedAt, now, timer, pending, fnCalls, calls, named>>

\* line 113, entering the map assignment. The runtime refuses to start an
\* assignment it sees another one in, but two calls can pass that test
\* together; both are then inside, and each has raced.
ConfirmInsertBegin(t) ==
    /\ ~crashed
    /\ th[t].pc = "insert"
    /\ \/ /\ mapWriting' = mapWriting \cup {t}
          /\ mapRaced' = IF mapWriting = {} THEN mapRaced
                         ELSE mapRaced \cup mapWriting \cup {t}
          /\ th' = [th EXCEPT ![t].pc = "inserting"]
          /\ UNCHANGED crashed
       \/ \* fatal error: concurrent map writes
          /\ mapWriting # {}
          /\ crashed' = TRUE
          /\ UNCHANGED <<mapWriting, mapRaced, th>>
    /\ UNCHANGED utilVars
    /\ UNCHANGED <<k, min, max, n, confirmations, start, armedAt, now, timer,
                   pending, fnCalls, calls, named>>

\* line 113, the assignment ends: s.confirmations[from] = struct{}{}. An
\* assignment that was alone stores its key. One that has raced writes the
\* map's memory unsynchronised with the other: its key is stored, or is lost
\* to the other's write; and the runtime, which tests at the end of an
\* assignment that the map is still marked as being written, can find the
\* mark cleared by the other and throw the fatal error, the key stored.
ConfirmInsertEnd(t) ==
    /\ ~crashed
    /\ th[t].pc = "inserting"
    /\ \/ /\ confirmations' = confirmations \cup {th[t].from}
          /\ mapWriting' = mapWriting \ {t}
          /\ mapRaced' = mapRaced \ {t}
          /\ th' = [th EXCEPT ![t].pc = "add"]
          /\ UNCHANGED crashed
       \/ \* the key is overwritten
          /\ t \in mapRaced
          /\ mapWriting' = mapWriting \ {t}
          /\ mapRaced' = mapRaced \ {t}
          /\ th' = [th EXCEPT ![t].pc = "add"]
          /\ UNCHANGED <<confirmations, crashed>>
       \/ \* fatal error: concurrent map writes
          /\ t \in mapRaced
          /\ confirmations' = confirmations \cup {th[t].from}
          /\ crashed' = TRUE
          /\ UNCHANGED <<mapWriting, mapRaced, th>>
    /\ UNCHANGED utilVars
    /\ UNCHANGED <<k, min, max, n, start, armedAt, now, timer, pending,
                   fnCalls, calls, named>>

\* line 119: n := atomic.AddInt32(&s.n, 1)
ConfirmAdd(t) ==
    /\ ~crashed
    /\ th[t].pc = "add"
    /\ n' = n + 1
    /\ th' = [th EXCEPT ![t].pc = "since", ![t].nloc = n + 1]
    /\ UNCHANGED utilVars
    /\ UNCHANGED <<k, min, max, confirmations, mapWriting, mapRaced,
                   start, armedAt, now, timer, pending, fnCalls, crashed, calls, named>>

\* lines 120-121: elapsed := time.Since(s.start); remaining := ...
ConfirmRemaining(t) ==
    /\ ~crashed
    /\ th[t].pc = "since"
    /\ th' = [th EXCEPT ![t].pc = "stop",
                        ![t].remaining =
                            remainingSuspicionTime(th[t].nloc, k, now - start,
                                                   min, max)]
    /\ UNCHANGED utilVars
    /\ UNCHANGED <<k, min, max, n, confirmations, mapWriting, mapRaced,
                   start, armedAt, now, timer, pending, fnCalls, crashed, calls, named>>

\* A Confirm that goes on as if it had stopped the timer whatever Stop reports.
ConfirmStopUnchecked(t) ==
    /\ ~crashed
    /\ th[t].pc = "stop"
    /\ timer' = [timer EXCEPT !.active = FALSE]
    /\ th' = [th EXCEPT ![t].pc = "stopped"]
    /\ UNCHANGED utilVars
    /\ UNCHANGED <<k, min, max, n, confirmations, mapWriting, mapRaced,
                   start, armedAt, now, pending, fnCalls, crashed, calls, named>>

\* line 122: s.timer.Stop() reports whether this call stopped the timer
ConfirmStop(t) ==
    /\ ~crashed
    /\ th[t].pc = "stop"
    /\ timer' = [timer EXCEPT !.active = FALSE]
    /\ th' = IF timer.active THEN [th EXCEPT ![t].pc = "stopped"]
             ELSE Return(t, TRUE)
    /\ UNCHANGED utilVars
    /\ UNCHANGED <<k, min, max, n, confirmations, mapWriting, mapRaced,
                   start, armedAt, now, pending, fnCalls, crashed, calls, named>>

\* A Confirm that resets the timer whatever the sign of remaining.
ConfirmRearmAlways(t) ==
    /\ ~crashed
    /\ th[t].pc = "stopped"
    /\ timer' = [active |-> TRUE, deadline |-> now + th[t].remaining]
    /\ th' = Return(t, TRUE)
    /\ UNCHANGED utilVars
    /\ UNCHANGED <<k, min, max, n, confirmations, mapWriting, mapRaced,
                   start, armedAt, now, pending, fnCalls, crashed, calls, named>>

\* lines 123-127: re-arm for remaining, or run s.timeoutFn in a goroutine
ConfirmRearm(t) ==
    /\ ~crashed
    /\ th[t].pc = "stopped"
    /\ IF th[t].remaining > 0
       THEN /\ timer' = [active |-> TRUE, deadline |-> now + th[t].remaining]
            /\ UNCHANGED pending
       ELSE /\ pending' = Append(pending, "confirm")
            /\ UNCHANGED timer
    /\ th' = Return(t, TRUE)
    /\ UNCHANGED utilVars
    /\ UNCHANGED <<k, min, max, n, confirmations, mapWriting, mapRaced,
                   start, armedAt, now, fnCalls, crashed, calls, named>>

Confirm(t) ==
    \/ \E p \in Peers : ConfirmLoad(t, p)
    \/ ConfirmLookup(t)
    \/ ConfirmInsertBegin(t)
    \/ ConfirmInsertEnd(t)
    \/ ConfirmAdd(t)
    \/ ConfirmRemaining(t)
    \/ ConfirmStop(t)
    \/ ConfirmRearm(t)

Init == newSuspicion

Next ==
    \/ Tick
    \/ TimerExpire
    \/ timeoutFn
    \/ \E t \in Threads : Confirm(t)

Spec == Init /\ [][Next]_vars

\* The runtime keeps the clock running, fires due timers and schedules every
\* goroutine that can run.
FairSpec ==
    /\ Spec
    /\ WF_vars(Tick)
    /\ WF_vars(TimerExpire)
    /\ WF_vars(timeoutFn)
    /\ \A t \in Threads :
          WF_vars(ConfirmLookup(t) \/ ConfirmInsertBegin(t)
                    \/ ConfirmInsertEnd(t) \/ ConfirmAdd(t)
                    \/ ConfirmRemaining(t) \/ ConfirmStop(t)
                    \/ ConfirmRearm(t))

(***************************************************************************)
(* Properties of the suspicion timer.                                      *)
(***************************************************************************)
Called == {t \in Threads : th[t].pc # "idle"}
Returned == {t \in Threads : th[t].pc = "done"}
Invocations == Len(pending) + Len(fnCalls)

\* C1: s.timeoutFn is started at most once, by the timer or by Confirm, under
\* every interleaving of Confirm calls with the timer's expiry.
C1_OnExpireAtMostOnce == Invocations <= 1

\* C1 witness: two calls have both returned true, one of them lost the race
\* for the timer, and fn has been called once, directly from Confirm.
C1_Witness ==
    /\ Len(fnCalls) = 1 /\ fnCalls[1].by = "confirm"
    /\ \A t \in Threads : th[t].pc = "done" /\ th[t].ret

\* The calls made are exactly k calls from k distinct peers, none of them the
\* originating peer.
KDistinctPeers ==
    /\ k >= 1
    /\ calls = k
    /\ Cardinality(Called) = k
    /\ \A t \in Called : th[t].from # FromPeer
    /\ \A t, u \in Called : t # u => th[t].from # th[u].from

\* C2: when k distinct peers, none the originating one, call Confirm
\* concurrently, the calls all complete and return true, the count ends at k,
\* and fn is not called twice.
C2_KConcurrentConfirms ==
    KDistinctPeers =>
        /\ ~crashed
        /\ \A t \in Returned : th[t].ret
        /\ Returned = Called => n = k
        /\ Invocations <= 1

\* C3: for a target k >= 0 the confirmation count never exceeds k.
C3_CountAtMostTarget == k >= 0 => n <= k

\* C10: with k < 1 the timer is armed for min and stays as armed, every
\* Confirm is rejected without touching the count or the map, fn is not called
\* before min has passed since the timer was armed, and once min has passed
\* the timer is due (it has fired or is about to).
C10_Safety ==
    k < 1 =>
        /\ timer.deadline = armedAt + min
        /\ \A t \in Called : th[t].pc = "done" /\ ~th[t].ret
        /\ n = 0 /\ confirmations = {FromPeer}
        /\ Invocations > 0 => now >= armedAt + min
        /\ Invocations <= 1
        /\ (now >= armedAt + min /\ Invocations = 0) => ENABLED TimerExpire
        /\ \A i \in 1..Len(fnCalls) : fnCalls[i].by = "timer"

C10_ZeroTarget == [](C10_Safety) /\ ((k < 1) ~> (Len(fnCalls) = 1))

\* C10 witness: k = 0, a Confirm from a new peer was rejected, min has passed
\* and the timer has called fn.
C10_Witness ==
    /\ k = 0 /\ Len(fnCalls) = 1 /\ now >= armedAt + min
    /\ \E t \in Returned : th[t].from # FromPeer /\ ~th[t].ret

\* Thread t makes a step of its call / enters Confirm / returns false.
Steps(t) == th'[t] # th[t]
Enters(t) == Steps(t) /\ calls' = calls + 1
ReturnsFalse(t) == Steps(t) /\ th'[t].pc = "done" /\ ~th'[t].ret
RejectFrame == UNCHANGED <<n, confirmations, timer>>

\* C11: a Confirm from the originating peer, from a peer that is already in
\* the map, or made when n >= k returns false, and a call that returns false
\* has left the count, the map and the timer (armed or not, and its deadline)
\* as they were: the only steps such a call makes are the load of line 105
\* and the lookup of line 110.
C11_RejectedLeavesState ==
    [][\A t \in Threads :
          /\ (Enters(t) /\ n >= k) => ReturnsFalse(t)
          /\ (Steps(t) /\ th[t].pc = "lookup" /\ th[t].from \in confirmations)
                => ReturnsFalse(t)
          /\ (Steps(t) /\ th[t].pc = "lookup") => FromPeer \in confirmations
          /\ ReturnsFalse(t) => RejectFrame
          /\ Enters(t) => RejectFrame]_vars

\* C11 witness: with k = 2 a peer was accepted, the same peer called again
\* and was rejected; the count is still 1 and the timer still armed.
C11_Witness ==
    /\ k = 2 /\ n = 1 /\ timer.active /\ pending = <<>> /\ fnCalls = <<>>
    /\ \E t, u \in Threads :
          /\ th[t].pc = "done" /\ th[t].ret
          /\ th[u].pc = "done" /\ ~th[u].ret /\ th[u].from = th[t].from

\* Every call made so far has returned.
AllReturned == calls >= 1 /\ \A t \in Called : th[t].pc = "done"

\* The calls made are one call each from distinct peers.
DistinctCallers ==
    /\ calls = Cardinality(Called)
    /\ \A t, u \in Called : t # u => th[t].from # th[u].from

\* C15: when concurrent calls from distinct peers have all returned, one of
\* them was accepted and the timer has not fired, the timer is armed with the
\* deadline computed from the final count. Stated for the runs in which the
\* clock has not moved since s.start was read, where that deadline is
\* s.start plus the timeout for the final count whichever call computes it.
C15_DeadlineFromFinalCount ==
    (DistinctCallers /\ AllReturned /\ ~crashed /\ n >= 1 /\ now = start
        /\ timer.active /\ Invocations = 0)
      => timer.deadline = start + remainingSuspicionTime(n, k, 0, min, max)

\* C16: an accepted Confirm whose Stop() succeeded and whose remaining is
\* <= 0 starts s.timeoutFn in a goroutine and leaves the timer stopped; with
\* remaining > 0 it re-arms the timer to fire remaining from now and starts
\* nothing; a Confirm whose Stop() failed returns true having neither re-armed
\* the timer nor started s.timeoutFn. No other step of a call touches the
\* timer or starts s.timeoutFn.
C16_StopThenRearmOrFire ==
    [][\A t \in Threads : Steps(t) =>
          /\ (th[t].pc = "stop" /\ timer.active) =>
                /\ th'[t].pc = "stopped" /\ ~timer'.active
                /\ UNCHANGED <<pending, fnCalls>>
          /\ (th[t].pc = "stop" /\ ~timer.active) =>
                /\ th'[t].pc = "done" /\ th'[t].ret
                /\ UNCHANGED <<timer, pending, fnCalls>>
          /\ (th[t].pc = "stopped" /\ th[t].remaining <= 0) =>
                /\ pending' = Append(pending, "confirm")
                /\ ~timer'.active
                /\ th'[t].pc = "done" /\ th'[t].ret
          /\ (th[t].pc = "stopped" /\ th[t].remaining > 0) =>
                /\ timer'.active
                /\ timer'.deadline = now + th[t].remaining
                /\ UNCHANGED <<pending, fnCalls>>
                /\ th'[t].pc = "done" /\ th'[t].ret
          /\ th[t].pc \notin {"stop", "stopped"} =>
                UNCHANGED <<timer, pending, fnCalls>>]_vars

\* C16 witness: a call has stopped the timer with a negative remaining: the
\* timeout for its count had already passed at line 120.
C16_Witness ==
    \E t \in Threads :
        /\ th[t].pc = "stopped" /\ th[t].remaining < 0
        /\ ~timer.active /\ pending = <<>> /\ fnCalls = <<>>

\* Thread t is the only one inside Confirm.
Alone(t) == \A u \in Threads \ {t} : th[u].pc \in {"idle", "done"}

\* The timeout for count c, measured from s.start.
Timeout(c) == remainingSuspicionTime(c, k, 0, min, max)

\* C17 as stated: in a sequential run with k >= 1, each accepted Confirm that
\* re-arms the timer leaves the time from s.start to the armed deadline no
\* larger than it was and not below min, and equal to min when the count has
\* reached k.
C17_TotalTimeoutToDeadline ==
    [][\A t \in Threads :
          (k >= 1 /\ Alone(t) /\ Steps(t) /\ th[t].pc = "stopped"
              /\ th[t].remaining > 0)
            => /\ timer'.deadline - start <= timer.deadline - start
               /\ timer'.deadline - start >= min
               /\ th[t].nloc >= k => timer'.deadline - start = min]_vars

\* C17 amended: in a sequential run with k >= 1, the timeout an accepted
\* Confirm computes at lines 120-121 (remaining + elapsed) is the timeout of
\* its count, which is at most the timeout of the count before (itself at
\* most max), never below min, and min when the count has reached k; and when
\* the call re-arms the timer, the deadline is s.start plus that timeout plus
\* the time that passed between line 120 and the Reset, so never earlier.
C17_TimeoutOfCount ==
    [][\A t \in Threads : (k >= 1 /\ Alone(t) /\ Steps(t)) =>
          /\ th[t].pc = "since" =>
                LET c == th[t].nloc
                    T == th'[t].remaining + (now - start)
                IN  /\ T = Timeout(c)
                    /\ T <= Timeout(c - 1) /\ Timeout(c - 1) <= max
                    /\ T >= min
                    /\ c >= k => th'[t].remaining = min - (now - start)
          /\ (th[t].pc = "stopped" /\ th[t].remaining > 0) =>
                /\ timer'.deadline >= start + Timeout(th[t].nloc)
                /\ timer'.deadline <= now + Timeout(th[t].nloc)
          /\ (th[t].pc = "stopped" /\ th[t].nloc >= k /\ now - start >= min
                 /\ th[t].remaining <= 0) =>
                pending' = Append(pending, "confirm")]_vars

\* C17 witness: with k = 2 and min < max the second accepted Confirm of a
\* sequential run, made after time has passed, has computed min - elapsed and
\* is about to stop the timer.
C17_Witness ==
    /\ k = 2 /\ min < max /\ n = 2 /\ now > start
    /\ \E t \in Threads :
          /\ Alone(t) /\ th[t].pc = "stop" /\ th[t].nloc = 2
          /\ th[t].remaining = min - (now - start)

\* C19: under fairness of the clock, the timer and the scheduled goroutines,
\* fn is eventually called, whatever k, min <= max and the Confirm calls are.
C19_EventuallyFired == <>(Len(fnCalls) >= 1)

(***************************************************************************)
(* Compound messages: makeCompoundMessage and decodeCompoundMessage.       *)
(* A byte is 0..255; a []byte is a sequence of bytes.                      *)
(***************************************************************************)
\* The suspicion timer's variables in the specifications that do not use it.
SuspicionUnused ==
    /\ k = 0 /\ min = 0 /\ max = 0 /\ n = 0 /\ confirmations = {}
    /\ mapWriting = {} /\ mapRaced = {}
    /\ start = 0 /\ armedAt = 0 /\ now = 0
    /\ timer = [active |-> FALSE, deadline |-> 0]
    /\ pending = <<>> /\ fnCalls = <<>> /\ th = <<>> /\ calls = 0
    /\ named = 0
    /\ crashed = FALSE

compoundMsg == 7                \* the messageType written at line 162
MaxMsgs == 3                    \* longest list enumerated in full
MaxCut == 2                     \* most bodies cut off a long list, short of all

Uint8(x) == x % 256
Uint16(x) == x % 65536

Rep(x, cnt) == [i \in 1..cnt |-> x]

\* The elements of ss written one after the other.
RECURSIVE Flatten(_)
Flatten(ss) ==
    IF ss = <<>> THEN <<>>
    ELSE IF Len(ss) = 1 THEN ss[1]
    ELSE LET half == Len(ss) \div 2
         IN  Flatten(SubSeq(ss, 1, half)) \o Flatten(SubSeq(ss, half + 1, Len(ss)))

\* binary.Write(buf, binary.BigEndian, uint16(len(m)))
PutUint16(x) == <<Uint16(x) \div 256, Uint16(x) % 256>>

\* binary.BigEndian.Uint16(b)
GetUint16(b) == b[1] * 256 + b[2]

\* lines 157-178
makeCompoundMessage(msgs) ==
    <<Uint8(compoundMsg), Uint8(Len(msgs))>>
        \o Flatten([i \in 1..Len(msgs) |-> PutUint16(Len(msgs[i]))])
        \o Flatten(msgs)

\* numParts*2 at lines 192 and 202: a uint8 product
TableBytes(numParts) == Uint8(numParts * 2)

\* line 207: trunc = int(numParts) - idx
Truncated(numParts, idx) == numParts - idx

\* The running sums of a sequence of numbers: PrefixSums(q)[i] = q[1]+...+q[i].
RECURSIVE PrefixSums(_)
PrefixSums(q) ==
    IF Len(q) <= 1 THEN q
    ELSE LET half == Len(q) \div 2
             l == PrefixSums(SubSeq(q, 1, half))
             r == PrefixSums(SubSeq(q, half + 1, Len(q)))
         IN  l \o [i \in 1..Len(r) |-> r[i] + l[half]]

\* lines 205-215: the loop over lengths.  Entering iteration idx (from 0) the
\* loop has sliced the first idx bodies off buf, so buf starts at offset
\* lengths[1] + ... + lengths[idx] of the bodies; it returns at the first idx
\* whose body is longer than what is left.
SplitParts(bodies, lengths) ==
    LET ends == PrefixSums(lengths)
        Off(idx) == IF idx = 0 THEN 0 ELSE ends[idx]
        short == {idx \in 0..(Len(lengths) - 1) :
                     Len(bodies) - Off(idx) < lengths[idx + 1]}
        stop == IF short = {} THEN Len(lengths)
                ELSE CHOOSE idx \in short : \A j \in short : idx <= j
        parts == [i \in 1..stop |-> SubSeq(bodies, Off(i - 1) + 1, Off(i))]
    IN  IF short = {}
        THEN [trunc |-> 0, parts |-> parts, err |-> "", oob |-> FALSE]
        ELSE [trunc |-> Truncated(Len(lengths), stop), parts |-> parts,
              err |-> "", oob |-> FALSE]

\* lines 183-217.  buf is the slice handed in; spare is what the backing array
\* holds between len(buf) and cap(buf).  A slice expression may reach up to the
\* capacity: it reads the spare bytes, and panics beyond them.  oob tells that
\* bytes past len(buf) were read.
decodeCompoundMessage(buf, spare) ==
    IF Len(buf) < 1
    THEN [trunc |-> 0, parts |-> <<>>, err |-> "missing compound length byte",
          oob |-> FALSE]
    ELSE LET numParts == Uint8(buf[1])
             rest == Tail(buf)
             array == rest \o spare
         IN  IF Len(rest) < TableBytes(numParts)
             THEN [trunc |-> 0, parts |-> <<>>, err |-> "truncated len slice",
                   oob |-> FALSE]
             ELSE IF numParts * 2 > Len(array)
             THEN [trunc |-> 0, parts |-> <<>>,
                   err |-> "panic: slice bounds out of range",
                   oob |-> \E i \in 1..numParts :
                              Len(rest) < 2 * i /\ 2 * i <= Len(array)]
             ELSE LET lengths == [i \in 1..numParts |->
                                    GetUint16(SubSeq(array, 2 * i - 1, 2 * i))]
                      res == SplitParts(
                                 SubSeq(rest, TableBytes(numParts) + 1,
                                        Len(rest)),
                                 lengths)
                  IN  [res EXCEPT !.oob = numParts * 2 > Len(rest)]

\* Messages a sender batches: empty, short, and one whose length needs both
\* bytes of its table entry.
Msgs == {<<>>, <<1>>, <<2, 3>>, Rep(9, 300)}

RECURSIVE SeqsUpTo(_, _)
SeqsUpTo(S, len) ==
    IF len = 0 THEN {<<>>}
    ELSE LET shorter == SeqsUpTo(S, len - 1)
         IN  shorter \cup {Append(q, x) : q \in shorter, x \in S}

\* Batch sizes around the point where twice the count leaves a byte.
LongCounts == {127, 128, 255}

MsgLists ==
    SeqsUpTo(Msgs, MaxMsgs)
      \cup {<<first>> \o Rep(pad, cnt - 1) :
               first \in Msgs, pad \in {<<>>, <<1>>}, cnt \in LongCounts}

\* What the receiver's backing array holds past the received bytes: nothing
\* (cap = len), or the zeroed rest of a larger receive buffer.
Spares == {<<>>, Rep(0, 2 * 255)}

SumLen(ss) == Len(Flatten(ss))

\* The wire with the bodies of the last j messages missing from its tail.
CutTail(wire, msgs, j) ==
    SubSeq(wire, 1,
           Len(wire) - SumLen(SubSeq(msgs, Len(msgs) - j + 1, Len(msgs))))

Cuts(msgs) == {j \in 0..Len(msgs) : j <= MaxCut \/ j = Len(msgs)}

\* Received bytes that announce count messages and carry tableLen bytes after
\* the count byte.
RawWire(count, tableLen, b) == <<compoundMsg, count>> \o Rep(b, tableLen)

RawCounts == {0, 1, 2, 127, 128, 129, 255}

ShortTables(count) ==
    {l \in {0, 1, 2, 2 * count - 256, 2 * count - 1} : 0 <= l /\ l < 2 * count}

NoResult == [trunc |-> 0, parts |-> <<>>, err |-> "", oob |-> FALSE]

CompoundInit ==
    /\ SuspicionUnused
    /\ dn = NoDeadNodes /\ kr = NoRandomNodes
    /\ sc = NoScaling /\ dc = NoDecompress
    /\ \/ \E L \in MsgLists :
            cm = [pc |-> "input", msgs |-> L, cut |-> 0, wire |-> <<>>,
                  spare |-> <<>>, dec |-> NoResult]
       \/ cm = [pc |-> "listen", msgs |-> <<>>, cut |-> 0, wire |-> <<>>,
                spare |-> <<>>, dec |-> NoResult]

\* The sender packs its batch.
Pack ==
    /\ cm.pc = "input"
    /\ cm' = [cm EXCEPT !.pc = "packed",
                        !.wire = makeCompoundMessage(cm.msgs)]
    /\ UNCHANGED <<suspVars, dn, kr, sc, dc>>

\* The packet arrives whole (j = 0) or with its last j bodies cut off.
Deliver(j, sp) ==
    /\ cm.pc = "packed"
    /\ cm' = [cm EXCEPT !.pc = "received", !.cut = j, !.spare = sp,
                        !.wire = CutTail(cm.wire, cm.msgs, j)]
    /\ UNCHANGED <<suspVars, dn, kr, sc, dc>>

\* A packet nobody packed: only the tag byte, or a count and a length table
\* shorter than the count calls for.
ReceiveRaw(w, sp) ==
    /\ cm.pc = "listen"
    /\ cm' = [cm EXCEPT !.pc = "rawReceived", !.wire = w, !.spare = sp]
    /\ UNCHANGED <<suspVars, dn, kr, sc, dc>>

\* The receiver has consumed the tag byte and decodes the rest.
Decode ==
    /\ cm.pc \in {"received", "rawReceived"}
    /\ cm.wire[1] = compoundMsg
    /\ cm' = [cm EXCEPT
                !.pc = IF cm.pc = "received" THEN "decoded" ELSE "rawDecoded",
                !.dec = decodeCompoundMessage(Tail(cm.wire), cm.spare)]
    /\ UNCHANGED <<suspVars, dn, kr, sc, dc>>

CompoundNext ==
    \/ Pack
    \/ \E j \in Cuts(cm.msgs), sp \in Spares : Deliver(j, sp)
    \/ \E sp \in Spares :
          \/ ReceiveRaw(<<compoundMsg>>, sp)
          \/ \E count \in RawCounts, b \in {0, 1} :
                \E l \in ShortTables(count) :
                    ReceiveRaw(RawWire(count, l, b), sp)
    \/ Decode

SpecCompound == CompoundInit /\ [][CompoundNext]_vars

(***************************************************************************)
(* Properties of compound messages.                                        *)
(***************************************************************************)
Decoded == cm.pc = "decoded"
Prefix(q, len) == SubSeq(q, 1, len)

\* C4: a batch of at most 255 messages that arrives whole decodes to itself:
\* nothing truncated, the same parts in the same order, no error.
C4_RoundTrip ==
    (Decoded /\ cm.cut = 0 /\ Len(cm.msgs) <= 255) =>
        /\ cm.dec.err = ""
        /\ cm.dec.trunc = 0
        /\ cm.dec.parts = cm.msgs

\* The first message whose body was cut off is not empty.
FirstCutNonEmpty ==
    cm.cut = 0 \/ cm.msgs[Len(cm.msgs) - cm.cut + 1] # <<>>

\* C5: with the last j bodies cut off, decoding reports j truncated messages
\* and returns the first len(L) - j messages, with no error, for every list of
\* at most 255 messages. It is stated here for the cuts whose first message to
\* lose its body is not empty: an empty message needs no body bytes, so the
\* loop of lines 205-215 returns it as a part, cut or not, and stops at the
\* first message whose body the buffer cannot supply.
C5_TruncationNonEmptyCut ==
    (Decoded /\ Len(cm.msgs) <= 255 /\ FirstCutNonEmpty) =>
        /\ cm.dec.err = ""
        /\ cm.dec.trunc = cm.cut
        /\ cm.dec.parts = Prefix(cm.msgs, Len(cm.msgs) - cm.cut)

\* C6: a buffer whose count byte c is followed by fewer than 2*c bytes is
\* refused with the truncated-table error, without parts and without reading
\* past the end of the buffer.
C6_ShortTableRefused ==
    (cm.pc = "rawDecoded" /\ Len(cm.wire) >= 2
       /\ Len(cm.wire) - 2 < 2 * cm.wire[2]) =>
        /\ cm.dec.err = "truncated len slice"
        /\ cm.dec.parts = <<>>
        /\ ~cm.dec.oob

(***************************************************************************)
(* moveDeadNodes.  A node is [id, State, age]: id is its place in the input *)
(* (the pointer), age is time.Since(StateChange), read at one instant for   *)
(* the whole call.                                                          *)
(***************************************************************************)
MaxNodes == 3       \* longest node list
MaxAge == 2         \* largest age of a state change

NodeStates == {"alive", "suspect", "dead"}
\* gossipToTheDeadTime
Graces == {1}

NodeKinds == [State : NodeStates, age : 0..MaxAge]

NodeLists ==
    UNION {{[i \in 1..len |-> [id |-> i, State |-> kinds[i].State,
                               age |-> kinds[i].age]] :
              kinds \in [1..len -> NodeKinds]} : len \in 0..MaxNodes}

\* A grace check that lets a node go at the very end of the window.
WithinGraceStrict(age, grace) == age < grace

\* line 110: time.Since(nodes[i].StateChange) <= gossipToTheDeadTime
WithinGrace(age, grace) == age <= grace

\* line 115: the index n-numDead-1 the node is swapped with
SwapTarget(len, numDead) == len - numDead - 1

\* An assignment that copies nodes[i] over nodes[j] and leaves nodes[i].
CopyOver(nodes, i, j) == [nodes EXCEPT ![j + 1] = nodes[i + 1]]

\* nodes[i], nodes[j] = nodes[j], nodes[i], with indices from 0
Swap(nodes, i, j) ==
    [nodes EXCEPT ![i + 1] = nodes[j + 1], ![j + 1] = nodes[i + 1]]

\* lines 104-119: the loop from index i with numDead nodes moved so far
RECURSIVE MoveLoop(_, _, _, _)
MoveLoop(nodes, grace, i, numDead) ==
    IF ~(i < Len(nodes) - numDead)
    THEN [nodes |-> nodes, ret |-> Len(nodes) - numDead]
    ELSE IF nodes[i + 1].State # "dead"
    THEN MoveLoop(nodes, grace, i + 1, numDead)
    ELSE IF WithinGrace(nodes[i + 1].age, grace)
    THEN MoveLoop(nodes, grace, i + 1, numDead)
    ELSE MoveLoop(Swap(nodes, i, SwapTarget(Len(nodes), numDead)), grace,
                  i, numDead + 1)

\* lines 101-120
moveDeadNodes(nodes, grace) == MoveLoop(nodes, grace, 0, 0)

DeadInit ==
    /\ SuspicionUnused
    /\ cm = NoCompound /\ kr = NoRandomNodes
    /\ sc = NoScaling /\ dc = NoDecompress
    /\ \E L \in NodeLists, g \in Graces :
          dn = [pc |-> "input", input |-> L, grace |-> g, nodes |-> L,
                ret |-> 0]

\* The caller runs moveDeadNodes on its slice.
MoveDeadNodesCall ==
    /\ dn.pc = "input"
    /\ LET out == moveDeadNodes(dn.nodes, dn.grace)
       IN  dn' = [dn EXCEPT !.pc = "done", !.nodes = out.nodes,
                            !.ret = out.ret]
    /\ UNCHANGED <<suspVars, cm, kr, sc, dc>>

DeadNext == MoveDeadNodesCall

SpecDead == DeadInit /\ [][DeadNext]_vars

(***************************************************************************)
(* Properties of moveDeadNodes.                                            *)
(***************************************************************************)
Evictable(node, grace) == node.State = "dead" /\ node.age > grace

\* The nodes of q that are not to evict, in the order of q.
RECURSIVE KeptOf(_, _)
KeptOf(q, grace) ==
    IF q = <<>> THEN <<>>
    ELSE IF Evictable(Head(q), grace) THEN KeptOf(Tail(q), grace)
    ELSE <<Head(q)>> \o KeptOf(Tail(q), grace)

Range(q) == {q[i] : i \in 1..Len(q)}

Kept == SubSeq(dn.nodes, 1, dn.ret)
InputKept == KeptOf(dn.input, dn.grace)

\* C7: after the call every element from the returned index on is dead and
\* past the grace window, no element before it is, and the dead nodes still
\* within the window are all before it.
C7_Partition ==
    dn.pc = "done" =>
        /\ dn.ret \in 0..Len(dn.nodes)
        /\ \A i \in 1..Len(dn.nodes) :
              (i > dn.ret) <=> Evictable(dn.nodes[i], dn.grace)
        /\ \A x \in Range(dn.input) :
              (x.State = "dead" /\ x.age <= dn.grace) => x \in Range(Kept)

\* C7 witness: the input had a node to evict ahead of a dead node at the very
\* end of its grace window, and the call kept the one and moved the other.
C7_Witness ==
    /\ dn.pc = "done" /\ Len(dn.input) = 3 /\ dn.ret = 2
    /\ Evictable(dn.input[1], dn.grace)
    /\ dn.input[3].State = "dead" /\ dn.input[3].age = dn.grace
    /\ dn.input[3] \in Range(Kept)

\* C8: after the call the kept nodes, the elements before the returned index,
\* are in the relative order they had in the input.
C8_KeptOrderPreserved == dn.pc = "done" => Kept = InputKept

\* How many times x occurs in q.
Occurrences(x, q) == Cardinality({i \in 1..Len(q) : q[i] = x})

\* C20: the call is defined for every input (its loop ends), the slice after
\* it has the length of the input and holds each node as many times as the
\* input did, and the returned index is in 0..len(nodes).
C20_Permutation ==
    /\ dn.pc = "input" => ENABLED MoveDeadNodesCall
    /\ dn.pc = "done" =>
          /\ Len(dn.nodes) = Len(dn.input)
          /\ \A x \in Range(dn.input) \cup Range(dn.nodes) :
                Occurrences(x, dn.nodes) = Occurrences(x, dn.input)
          /\ dn.ret \in 0..Len(dn.nodes)

\* C20 witness: a call on three nodes has moved two of them and left the
\* slice in another order than the input.
C20_Witness ==
    /\ dn.pc = "done" /\ Len(dn.input) = 3 /\ dn.ret = 1
    /\ dn.nodes # dn.input

(***************************************************************************)
(* kRandomNodes and randomOffset.  The nodes are the pointers 1..n; a nil   *)
(* filterFn is a filter that excludes nothing.  Each pass of the loop draws *)
(* one value of rand.Uint32().                                              *)
(***************************************************************************)
MaxPool == 3        \* longest node list handed to kRandomNodes
MaxWanted == 3      \* largest k
MaxRand == 3        \* largest value drawn from rand.Uint32()

\* lines 55-60
randomOffset(len, r) == IF len = 0 THEN 0 ELSE r % len

\* A duplicate check that never finds the node.
NeverHave(node, kNodes) == FALSE

\* lines 143-147: the node is already in kNodes
AlreadyHave(node, kNodes) == \E j \in 1..Len(kNodes) : node = kNodes[j]

\* filterFn: nil, or a function that excludes the nodes of a set
Filters(len) ==
    {[nil |-> TRUE, excluded |-> {}]}
      \cup {[nil |-> FALSE, excluded |-> e] : e \in SUBSET (1..len)}

RandomInit ==
    /\ SuspicionUnused
    /\ cm = NoCompound /\ dn = NoDeadNodes
    /\ sc = NoScaling /\ dc = NoDecompress
    /\ \E len \in 0..MaxPool, want \in 0..MaxWanted :
          \E f \in Filters(len) :
              kr = [pc |-> "loop", k |-> want, nodes |-> [i \in 1..len |-> i],
                    nilFilter |-> f.nil, excluded |-> f.excluded, i |-> 0,
                    kNodes |-> <<>>, drawn |-> {}]

\* lines 132-151: one pass of the loop, with r the value of rand.Uint32()
Probe(r) ==
    /\ kr.pc = "loop"
    /\ kr.i < 3 * Len(kr.nodes) /\ Len(kr.kNodes) < kr.k
    /\ LET idx == randomOffset(Len(kr.nodes), r)
           node == kr.nodes[idx + 1]
       IN  kr' = [kr EXCEPT
                    !.i = kr.i + 1,
                    !.drawn = kr.drawn \cup {node},
                    !.kNodes =
                        IF ~kr.nilFilter /\ node \in kr.excluded THEN kr.kNodes
                        ELSE IF AlreadyHave(node, kr.kNodes) THEN kr.kNodes
                        ELSE Append(kr.kNodes, node)]
    /\ UNCHANGED <<suspVars, cm, dn, sc, dc>>

\* line 152: the loop condition fails and kNodes is returned
ReturnNodes ==
    /\ kr.pc = "loop"
    /\ ~(kr.i < 3 * Len(kr.nodes) /\ Len(kr.kNodes) < kr.k)
    /\ kr' = [kr EXCEPT !.pc = "done"]
    /\ UNCHANGED <<suspVars, cm, dn, sc, dc>>

RandomNext ==
    \/ \E r \in 0..MaxRand : Probe(r)
    \/ ReturnNodes

SpecRandom == RandomInit /\ [][RandomNext]_vars

(***************************************************************************)
(* Properties of kRandomNodes.                                             *)
(***************************************************************************)
Smaller(a, b) == IF a <= b THEN a ELSE b
Distinct(q) == \A i, j \in 1..Len(q) : i # j => q[i] # q[j]

\* C9 as stated: with a nil filter and len(nodes) >= k the result has exactly
\* min(k, len(nodes)) elements, distinct and from nodes, whatever is drawn.
C9_ExactlyMinAnyDraws ==
    (kr.pc = "done" /\ kr.nilFilter /\ Len(kr.nodes) >= kr.k) =>
        /\ Len(kr.kNodes) = Smaller(kr.k, Len(kr.nodes))
        /\ Distinct(kr.kNodes)
        /\ Range(kr.kNodes) \subseteq Range(kr.nodes)

\* C9 amended: with a nil filter and len(nodes) >= k the result has
\* min(k, d) elements, d being the number of distinct nodes drawn in the at
\* most 3*len(nodes) draws: never more than min(k, len(nodes)), and that many
\* only if the draws hit k distinct nodes.  They are distinct and from nodes.
C9_MinOfWantedAndDrawn ==
    (kr.pc = "done" /\ kr.nilFilter /\ Len(kr.nodes) >= kr.k) =>
        /\ Len(kr.kNodes) = Smaller(kr.k, Cardinality(kr.drawn))
        /\ Len(kr.kNodes) <= Smaller(kr.k, Len(kr.nodes))
        /\ kr.i <= 3 * Len(kr.nodes)
        /\ Distinct(kr.kNodes)
        /\ Range(kr.kNodes) \subseteq Range(kr.nodes)

\* C9 witness: two nodes were wanted of three, every draw gave the same node,
\* and after all nine draws one node was returned.
C9_Witness ==
    /\ kr.pc = "done" /\ kr.nilFilter /\ kr.k = 2 /\ Len(kr.nodes) = 3
    /\ kr.i = 9 /\ Len(kr.kNodes) = 1

\* C18: at every point of kRandomNodes, and so when it returns, at most
\* 3*len(nodes) draws have been made and kNodes holds at most k nodes, no node
\* twice, each of them in nodes and none excluded by the filter; with an empty
\* node list nothing is drawn and the result is empty.
C18_BoundedDistinctUnfiltered ==
    kr.pc \in {"loop", "done"} =>
        /\ kr.i <= 3 * Len(kr.nodes)
        /\ Len(kr.kNodes) <= kr.k
        /\ Distinct(kr.kNodes)
        /\ Range(kr.kNodes) \subseteq Range(kr.nodes)
        /\ ~kr.nilFilter => Range(kr.kNodes) \cap kr.excluded = {}
        /\ Range(kr.kNodes) \subseteq kr.drawn
        /\ Len(kr.nodes) = 0 => (kr.i = 0 /\ kr.drawn = {} /\ kr.kNodes = <<>>)

\* C18 witness: a call with a filter has returned the two nodes wanted after
\* drawing an excluded node and drawing some node twice.
C18_Witness ==
    /\ kr.pc = "done" /\ ~kr.nilFilter /\ kr.k = 2 /\ Len(kr.kNodes) = 2
    /\ kr.drawn \cap kr.excluded # {}
    /\ kr.i > Cardinality(kr.drawn)

(***************************************************************************)
(* Scaling heuristics: pushPullScale and retransmitLimit.                  *)
(* Durations and limits are integers well inside 64 bits.                  *)
(***************************************************************************)
pushPullScaleThreshold == 32
MaxClusterSize == 129           \* largest cluster size n
Intervals == {0 - 1, 0, 1, 5}   \* time.Duration values
Mults == {0 - 1, 0, 1, 4}       \* retransmitMult values

\* math.Floor(math.Log2(x)) for an integer x >= 1
FloorLog2(x) == CHOOSE e \in 0..31 : Pow(2, e) <= x /\ x < Pow(2, e + 1)

\* math.Ceil(math.Log2(x)) for an integer x >= 1: the least e with 2^e >= x
CeilLog2(x) == CHOOSE e \in 0..31 : Pow(2, e) >= x /\ (e = 0 \/ Pow(2, e - 1) < x)

\* math.Ceil(math.Log10(x)) for an integer x >= 1: the least e with 10^e >= x
CeilLog10(x) ==
    CHOOSE e \in 0..9 : Pow(10, e) >= x /\ (e = 0 \/ Pow(10, e - 1) < x)

pushPullScale(interval, nn) ==
    IF nn <= pushPullScaleThreshold THEN interval
    ELSE LET multiplier ==
                 (CeilLog2(nn) - CeilLog2(pushPullScaleThreshold)) + 1
         IN  multiplier * interval

\* A limit that shrinks as the cluster grows.
retransmitLimitShrinking(retransmitMult, nn) ==
    retransmitMult * (3 - CeilLog10(nn + 1))

retransmitLimit(retransmitMult, nn) ==
    LET nodeScale == CeilLog10(nn + 1)
    IN  retransmitMult * nodeScale

\* The scheduler asks for the scale at two cluster sizes n1 <= n2.
ScalingInit ==
    /\ SuspicionUnused
    /\ cm = NoCompound /\ dn = NoDeadNodes /\ kr = NoRandomNodes
    /\ dc = NoDecompress
    /\ \/ \E iv \in Intervals, n1 \in (0 - 1)..MaxClusterSize :
            \E n2 \in n1..MaxClusterSize :
               sc = [pc |-> "input", fn |-> "pushPullScale", arg |-> iv,
                     n1 |-> n1, n2 |-> n2, r1 |-> 0, r2 |-> 0]
       \/ \E m \in Mults, n1 \in 0..MaxClusterSize :
            \E n2 \in n1..MaxClusterSize :
               sc = [pc |-> "input", fn |-> "retransmitLimit", arg |-> m,
                     n1 |-> n1, n2 |-> n2, r1 |-> 0, r2 |-> 0]

PushPullScaleCalls ==
    /\ sc.pc = "input" /\ sc.fn = "pushPullScale"
    /\ sc' = [sc EXCEPT !.pc = "done",
                        !.r1 = pushPullScale(sc.arg, sc.n1),
                        !.r2 = pushPullScale(sc.arg, sc.n2)]
    /\ UNCHANGED <<suspVars, cm, dn, kr, dc>>

RetransmitLimitCalls ==
    /\ sc.pc = "input" /\ sc.fn = "retransmitLimit"
    /\ sc' = [sc EXCEPT !.pc = "done",
                        !.r1 = retransmitLimit(sc.arg, sc.n1),
                        !.r2 = retransmitLimit(sc.arg, sc.n2)]
    /\ UNCHANGED <<suspVars, cm, dn, kr, dc>>

ScalingNext == PushPullScaleCalls \/ RetransmitLimitCalls

SpecScaling == ScalingInit /\ [][ScalingNext]_vars

Scaled(fn) == sc.pc = "done" /\ sc.fn = fn

\* The interval is returned as it is up to 32 nodes, doubled for 33..64 and
\* tripled for 65..128.
PushPullSteps ==
    /\ sc.n2 <= 32 => sc.r2 = sc.arg
    /\ (33 <= sc.n2 /\ sc.n2 <= 64) => sc.r2 = 2 * sc.arg
    /\ (65 <= sc.n2 /\ sc.n2 <= 128) => sc.r2 = 3 * sc.arg

\* C12 as stated: the steps at 33 and 65, and pushPullScale(iv, n) never
\* decreases as n grows, for every interval iv.
C12_StepsAndNonDecreasing ==
    Scaled("pushPullScale") => PushPullSteps /\ sc.r1 <= sc.r2

\* C12 amended: the steps at 33 and 65 for every interval; the result never
\* decreases as n grows when the interval is not negative, and never increases
\* when it is negative.
C12_StepsAndNonDecreasingFromZero ==
    Scaled("pushPullScale") =>
        /\ PushPullSteps
        /\ sc.arg >= 0 => sc.r1 <= sc.r2
        /\ sc.arg < 0 => sc.r1 >= sc.r2

\* C12 witness: a positive interval is doubled at 64 nodes, tripled at 65.
C12_Witness ==
    /\ Scaled("pushPullScale") /\ sc.arg > 0 /\ sc.n1 = 64 /\ sc.n2 = 65
    /\ sc.r1 = 2 * sc.arg /\ sc.r2 = 3 * sc.arg

\* C13 as stated: for every retransmitMult and all 0 <= n1 <= n2,
\* retransmitLimit(retransmitMult, n1) <= retransmitLimit(retransmitMult, n2).
C13_NonDecreasing == Scaled("retransmitLimit") => sc.r1 <= sc.r2

\* C13 amended: the limit never decreases as n grows when retransmitMult is
\* not negative, and never increases when it is negative.
C13_NonDecreasingFromZero ==
    Scaled("retransmitLimit") =>
        /\ sc.arg >= 0 => sc.r1 <= sc.r2
        /\ sc.arg < 0 => sc.r1 >= sc.r2

\* C13 witness: with a positive retransmitMult the limit grows from one
\* multiple at n = 9 to two at n = 10.
C13_Witness ==
    /\ Scaled("retransmitLimit") /\ sc.arg > 0 /\ sc.n1 = 9 /\ sc.n2 = 10
    /\ sc.r1 = sc.arg /\ sc.r2 = 2 * sc.arg

(***************************************************************************)
(* The compression envelope: decompressBuffer.                             *)
(* compress{Algo, Buf}; Algo is a uint8, Buf an LZW stream (LSB first,     *)
(* literal width 8) as compressPayload writes it.                          *)
(***************************************************************************)
lzwAlgo == 0                    \* the one known compressionType
lzwLitWidth == 8
lzwClear == 256                 \* 1 << lzwLitWidth
lzwEof == 257                   \* lzwClear + 1
lzwInvalid == 0 - 1             \* "no previous code"

\* The bits of a byte sequence / the bytes of a bit sequence, low bit first.
RECURSIVE BitsOf(_)
BitsOf(buf) ==
    IF buf = <<>> THEN <<>>
    ELSE [i \in 1..8 |-> (Head(buf) \div Pow(2, i - 1)) % 2] \o BitsOf(Tail(buf))

\* The codes of (lzwLitWidth + 1) bits that can be read in full from the
\* buffer; the stream stays at that width while fewer than 255 codes are read.
CodesOf(buf) ==
    LET bits == BitsOf(buf)
        w == lzwLitWidth + 1
        Code(j) == LET Sum[i \in 0..w] ==
                           IF i = 0 THEN 0
                           ELSE Sum[i - 1]
                                  + bits[(j - 1) * w + i] * Pow(2, i - 1)
                   IN  Sum[w]
    IN  [j \in 1..(Len(bits) \div w) |-> Code(j)]

\* The writer's packing of codes into bytes, padded with zero bits.
PackCodes(codes) ==
    LET w == lzwLitWidth + 1
        nbits == Len(codes) * w
        Bit(b) == IF b > nbits THEN 0
                  ELSE (codes[((b - 1) \div w) + 1]
                          \div Pow(2, (b - 1) % w)) % 2
        Byte(j) == LET Sum[i \in 0..8] ==
                           IF i = 0 THEN 0
                           ELSE Sum[i - 1] + Bit((j - 1) * 8 + i) * Pow(2, i - 1)
                   IN  Sum[8]
    IN  [j \in 1..((nbits + 7) \div 8) |-> Byte(j)]

\* The bytes a code stands for; table[t] is the entry of code lzwEof + t.
Expansion(code, table) ==
    IF code < lzwClear THEN <<code>> ELSE table[code - lzwEof]

\* compress/lzw Reader.decode over the codes from position i on: last is the
\* previous code, hi the highest code in use, out the bytes produced so far.
RECURSIVE lzwDecode(_, _, _, _, _, _)
lzwDecode(codes, i, last, hi, table, out) ==
    IF i > Len(codes) THEN [out |-> <<>>, err |-> "unexpected EOF"]
    ELSE LET code == codes[i]
         IN  IF code < lzwClear
             THEN lzwDecode(codes, i + 1, code, hi + 1,
                            IF last # lzwInvalid
                            THEN Append(table, Expansion(last, table) \o <<code>>)
                            ELSE table,
                            out \o <<code>>)
             ELSE IF code = lzwClear
             THEN lzwDecode(codes, i + 1, lzwInvalid, lzwEof, <<>>, out)
             ELSE IF code = lzwEof
             THEN [out |-> out, err |-> "nil"]
             ELSE IF code <= hi
             THEN LET prev == Expansion(last, table)
                      str == IF code = hi THEN prev \o <<Head(prev)>>
                             ELSE table[code - lzwEof]
                  IN  lzwDecode(codes, i + 1, code, hi + 1,
                                Append(table, prev \o <<Head(str)>>),
                                out \o str)
             ELSE [out |-> <<>>, err |-> "lzw: invalid code"]

\* An envelope check that lets every algorithm through.
AnyAlgo(algo) == TRUE

\* line 258
KnownAlgo(algo) == algo = lzwAlgo

\* decompressBuffer: the bytes returned (<<>> for nil), the error, and
\* whether the LZW reader was run on c.Buf.
decompressBuffer(c) ==
    IF ~KnownAlgo(c.Algo)
    THEN [out |-> <<>>, err |-> "Cannot decompress unknown algorithm",
          read |-> FALSE]
    ELSE LET r == lzwDecode(CodesOf(c.Buf), 1, lzwInvalid, lzwEof, <<>>, <<>>)
         IN  [out |-> r.out, err |-> r.err, read |-> TRUE]

Algos == 0..255                 \* every compressionType value
\* Code streams: the streams the writer produces for "", "A", "AB" and "AAA",
\* a stream cut before its end code, and a stream with a code not yet in use.
CodeStreams ==
    {<<lzwClear, lzwEof>>, <<lzwClear, 65, lzwEof>>,
     <<lzwClear, 65, 66, lzwEof>>, <<lzwClear, 65, 258, lzwEof>>,
     <<lzwClear, 65>>, <<lzwClear, 65, 300, lzwEof>>}
Bufs == {<<>>} \cup {PackCodes(cs) : cs \in CodeStreams}

DecompressInit ==
    /\ SuspicionUnused
    /\ cm = NoCompound /\ dn = NoDeadNodes /\ kr = NoRandomNodes
    /\ sc = NoScaling
    /\ \E a \in Algos, b \in Bufs :
          dc = [pc |-> "input", c |-> [Algo |-> a, Buf |-> b],
                result |-> [out |-> <<>>, err |-> "nil", read |-> FALSE]]

DecompressBufferCall ==
    /\ dc.pc = "input"
    /\ dc' = [dc EXCEPT !.pc = "done", !.result = decompressBuffer(dc.c)]
    /\ UNCHANGED <<suspVars, cm, dn, kr, sc>>

DecompressNext == DecompressBufferCall

SpecDecompress == DecompressInit /\ [][DecompressNext]_vars

\* C14: decompressBuffer on an envelope whose algorithm is not the known one
\* returns an error and no bytes, and does not run the decompressor on the
\* buffer.
C14_UnknownAlgorithmRefused ==
    (dc.pc = "done" /\ dc.c.Algo # lzwAlgo) =>
        /\ dc.result.err = "Cannot decompress unknown algorithm"
        /\ dc.result.out = <<>>
        /\ ~dc.result.read

\* C14 witness: the buffer is the well-formed stream of "AB", which the
\* known algorithm would decompress, under an unknown identifier: refused.
C14_Witness ==
    /\ dc.pc = "done" /\ dc.c.Algo = 1
    /\ dc.c.Buf = PackCodes(<<lzwClear, 65, 66, lzwEof>>)
    /\ decompressBuffer([Algo |-> lzwAlgo, Buf |-> dc.c.Buf]).out = <<65, 66>>
    /\ dc.result.err # "nil" /\ dc.result.out = <<>>

=============================================================================
